---- MODULE Spec2Model ----
(***************************************************************************)
(* spectrum_fitter.py: lineshape objects aggregated into a SpectralModel,  *)
(* the two cost functions handed to the optimizer, and the block-averaging *)
(* loops of kw.py.                                                         *)
(*                                                                         *)
(* Floating-point numbers are modelled as exact rationals <<n, d>> in      *)
(* lowest terms with d > 0; <<1,0>>, <<-1,0>> and <<0,0>> stand for +inf,  *)
(* -inf and nan.  Python lists are heap objects: a lineshape holds the id  *)
(* of its parameter list, so that two lineshapes may hold the same list.   *)
(***************************************************************************)
EXTENDS Integers, Sequences, FiniteSets, TLC

\* ------------------------------------------------------------- bounds ----
MaxLineshapes == 2      \* lineshapes added to one model

\* the values parameters are set to
PVals == {1, 2}

\* ---------------------------------------------------------- rationals ----
Abs(x) == IF x < 0 THEN -x ELSE x

Sgn(x) == IF x < 0 THEN -1 ELSE IF x > 0 THEN 1 ELSE 0

RECURSIVE GCD(_, _)
GCD(a, b) == IF b = 0 THEN a ELSE GCD(b, a % b)

Rat(n, d) ==
    IF d = 0 THEN <<Sgn(n), 0>>
    ELSE LET g == GCD(Abs(n), Abs(d))
             s == IF d < 0 THEN -1 ELSE 1
         IN  <<s * (n \div g), s * (d \div g)>>

R(x) == <<x, 1>>

NaN == <<0, 0>>

IsFinite(a) == a[2] # 0

RNeg(a) == <<-a[1], a[2]>>

RAdd(a, b) ==
    IF IsFinite(a) /\ IsFinite(b)
    THEN LET g == GCD(a[2], b[2])
         IN  Rat(a[1] * (b[2] \div g) + b[1] * (a[2] \div g), (a[2] \div g) * b[2])
    ELSE IF a = NaN \/ b = NaN THEN NaN
    ELSE IF IsFinite(a) THEN b
    ELSE IF IsFinite(b) THEN a
    ELSE IF a = b THEN a ELSE NaN

RSub(a, b) == RAdd(a, RNeg(b))

RMul(a, b) ==
    IF IsFinite(a) /\ IsFinite(b)
    THEN LET g == GCD(Abs(a[1]), b[2])
             h == GCD(Abs(b[1]), a[2])
         IN  Rat((a[1] \div g) * (b[1] \div h), (a[2] \div h) * (b[2] \div g))
    ELSE IF a = NaN \/ b = NaN \/ a[1] = 0 \/ b[1] = 0 THEN NaN
    ELSE <<Sgn(a[1]) * Sgn(b[1]), 0>>

RDiv(a, b) ==
    IF IsFinite(a) /\ IsFinite(b)
    THEN IF b[1] = 0 THEN <<Sgn(a[1]), 0>>
         ELSE LET g == GCD(Abs(a[1]), Abs(b[1]))
                  h == GCD(a[2], b[2])
              IN  Rat((a[1] \div g) * (b[2] \div h), (a[2] \div h) * (b[1] \div g))
    ELSE IF a = NaN \/ b = NaN THEN NaN
    ELSE IF IsFinite(a) THEN R(0)
    ELSE IF IsFinite(b) THEN <<a[1] * (IF b[1] < 0 THEN -1 ELSE 1), 0>>
    ELSE NaN

RSq(a) == RMul(a, a)

RECURSIVE RPow(_, _)
RPow(a, k) == IF k = 0 THEN R(1) ELSE RMul(a, RPow(a, k - 1))

\* numpy.zeros(n)
Zeros(n) == [i \in 1..n |-> R(0)]

\* element-wise a + b on arrays of equal length
VAdd(a, b) == [i \in 1..Len(a) |-> RAdd(a[i], b[i])]

\* numpy.dot(a, a)
RECURSIVE DotSelf(_)
DotSelf(a) == IF a = <<>> THEN R(0) ELSE RAdd(RSq(Head(a)), DotSelf(Tail(a)))

\* ------------------------------------------------------ lineshape classes -
Classes ==
    <<"Debye", "DHO", "BrendelDHO", "DistributionOfDebye", "StretchedExp",
      "PowerLawDebye", "ColeCole", "VanVleck", "Gaussian", "constant">>

ClassNames == {Classes[i] : i \in 1..Len(Classes)}

\* float('inf') in the default bounds
Inf == 1000000

Unbounded == <<-Inf, Inf>>

NonNeg == <<0, Inf>>

\* The default arguments of each __init__ (params, bounds, name) and the
\* attributes the constructor stores (type, f).  type and f are sequences of
\* length 0 (the attribute does not exist) or 1.
ClassDef(cls) ==
    CASE cls = "Debye" ->
           [params |-> <<1, 1>>, bounds |-> <<Unbounded, Unbounded>>,
            name |-> "Debye", type |-> <<"Debye">>, f |-> <<>>, nparams |-> 2]
      [] cls = "DHO" ->
           [params |-> <<1, 1, 1>>, bounds |-> <<Unbounded, Unbounded>>,
            name |-> "DHO", type |-> <<"DHO">>, f |-> <<>>, nparams |-> 3]
      [] cls = "BrendelDHO" ->
           [params |-> <<1, 1, 1, 1>>, bounds |-> <<NonNeg, NonNeg, NonNeg, NonNeg>>,
            name |-> "BrendelDHO", type |-> <<"BrendelDHO">>, f |-> <<R(0)>>, nparams |-> 4]
      [] cls = "DistributionOfDebye" ->
           [params |-> <<1, 1>>, bounds |-> <<NonNeg, NonNeg>>,
            name |-> "BrendelDHO", type |-> <<>>, f |-> <<>>, nparams |-> 2]
      [] cls = "StretchedExp" ->
           [params |-> <<1, 1, 1>>, bounds |-> <<<<0, 10000>>, <<0, 10000>>, <<0, 1>>>>,
            name |-> "Str exp", type |-> <<"StretchedExp">>, f |-> <<>>, nparams |-> 3]
      [] cls = "PowerLawDebye" ->
           [params |-> <<1, 1>>, bounds |-> <<NonNeg, NonNeg, NonNeg, <<1, 10>>>>,
            name |-> "unnamed", type |-> <<"PowerLawDebye">>, f |-> <<>>, nparams |-> 4]
      [] cls = "ColeCole" ->
           [params |-> <<1, 1, 1>>, bounds |-> <<NonNeg, NonNeg, <<0, 2>>>>,
            name |-> "unnamed", type |-> <<"Debye">>, f |-> <<>>, nparams |-> 3]
      [] cls = "VanVleck" ->
           [params |-> <<1, 1, 1>>, bounds |-> <<Unbounded, Unbounded>>,
            name |-> "VanVleck", type |-> <<"VanVleck">>, f |-> <<>>, nparams |-> 3]
      [] cls = "Gaussian" ->
           [params |-> <<1, 1, 1>>, bounds |-> <<Unbounded, Unbounded>>,
            name |-> "Gaussian", type |-> <<"BRO">>, f |-> <<>>, nparams |-> 3]
      [] cls = "constant" ->
           [params |-> <<1>>, bounds |-> <<<<0, 10000>>>>,
            name |-> "Eps float('inf')", type |-> <<"Constant">>, f |-> <<>>, nparams |-> 1]

\* Heap ids of parameter lists.  The default value of a `params=[...]` argument
\* is one list object per class, created when the class body is executed:
\* list i is the default of Classes[i].  Lists passed by the caller get the
\* ids above Len(Classes).
DefaultList(cls) == CHOOSE i \in 1..Len(Classes) : Classes[i] = cls

\* ------------------------------------------------- lineshape __call__ ----
\* Each __call__ is given the parameter list p (integers) and the frequency
\* array w (integers) and yields [exc, rp, cp]: exc is "" on return and the
\* exception's name otherwise.
Returned(rp, cp) == [exc |-> "", rp |-> rp, cp |-> cp]

Raised(e) == [exc |-> e, rp |-> <<>>, cp |-> <<>>]

DebyeRp(p, x) == RDiv(R(p[1] * p[2] * p[2]), R(p[2] * p[2] + x * x))

Debye_call(p, w) ==
    Returned([i \in 1..Len(w) |-> DebyeRp(p, w[i])],
             [i \in 1..Len(w) |-> RDiv(RMul(DebyeRp(p, w[i]), R(w[i])), R(p[2]))])

DHODenom(p, x) == (p[2] * p[2] - x * x) * (p[2] * p[2] - x * x) + x * x * p[3] * p[3]

DHO_call(p, w) ==
    Returned([i \in 1..Len(w) |->
                 RDiv(R(p[1] * (p[2] * p[2]) * (p[2] * p[2] - w[i] * w[i])), R(DHODenom(p, w[i])))],
             [i \in 1..Len(w) |->
                 RDiv(R(p[1] * (p[2] * p[2]) * p[3] * w[i]), R(DHODenom(p, w[i])))])

\* eps of the Brendel model.  The complex erfcx expression of line 82 has no
\* counterpart in integer arithmetic: a rational function of the same
\* arguments (p[0], x0, g, sigma and w) stands for it.  What is kept exactly:
\* a = sqrt(w**2 - 1j*g*w) is 0 at w = 0, where 1/a makes both parts nan.
BrendelEps(p, x) ==
    IF x = 0 THEN [re |-> NaN, im |-> NaN]
    ELSE LET d == p[4] * (p[2] * p[2] + x * x)
         IN  [re |-> RDiv(R(p[1] * p[2] * p[2]), R(d)),
              im |-> RDiv(R(p[1] * p[2] * p[2] * p[3] * x), R(d))]

\* BrendelDHO.__call__ also stores self.f = eps.real[1]; the stored value is
\* the f field of the result.
BrendelDHO_call(p, w) ==
    IF Len(w) < 2 THEN Raised("IndexError")
    ELSE [exc |-> "",
          rp |-> [i \in 1..Len(w) |-> BrendelEps(p, w[i]).re],
          cp |-> [i \in 1..Len(w) |-> BrendelEps(p, w[i]).im],
          f |-> <<BrendelEps(p, w[2]).re>>]

\* the class defines no __call__
DistributionOfDebye_call(p, w) == Raised("TypeError")

\* calc_eps calls ifft, a name `from numpy import *` does not bind
StretchedExp_call(p, w) == Raised("NameError")

PowerLawWing(p, x) ==
    RAdd(R(1), RMul(R(p[3]), RPow(RMul(R(x), RDiv(R(1), R(p[2]))), p[4])))

PowerLawDenom(p, x) == RAdd(R(1), RSq(RMul(RDiv(R(1), R(p[2])), R(x))))

PowerLawDebye_call(p, w) ==
    IF Len(p) < 4 THEN Raised("IndexError")
    ELSE Returned(
           [i \in 1..Len(w) |->
               RDiv(RMul(PowerLawWing(p, w[i]), R(p[1])), PowerLawDenom(p, w[i]))],
           [i \in 1..Len(w) |->
               RDiv(RMul(RMul(RMul(PowerLawWing(p, w[i]), R(p[1])), R(w[i])),
                         RDiv(R(1), R(p[2]))),
                    PowerLawDenom(p, w[i]))])

ColeCole_call(p, w) ==
    Returned([i \in 1..Len(w) |-> DebyeRp(p, w[i])],
             [i \in 1..Len(w) |-> RDiv(RMul(DebyeRp(p, w[i]), R(w[i])), R(p[2]))])

\* rp = .5*p[0]*(p[1]**2 + p[2]**2)( ... ) calls a number
VanVleck_call(p, w) == Raised("TypeError")

Gaussian_call(p, w) == Raised("TypeError")

constant_call(p, w) ==
    Returned([i \in 1..Len(w) |-> R(p[1])], [i \in 1..Len(w) |-> R(0)])

\* lineshape(w): dispatch on the class of the object
LineshapeCall(cls, p, w) ==
    CASE cls = "Debye" -> Debye_call(p, w)
      [] cls = "DHO" -> DHO_call(p, w)
      [] cls = "BrendelDHO" -> BrendelDHO_call(p, w)
      [] cls = "DistributionOfDebye" -> DistributionOfDebye_call(p, w)
      [] cls = "StretchedExp" -> StretchedExp_call(p, w)
      [] cls = "PowerLawDebye" -> PowerLawDebye_call(p, w)
      [] cls = "ColeCole" -> ColeCole_call(p, w)
      [] cls = "VanVleck" -> VanVleck_call(p, w)
      [] cls = "Gaussian" -> Gaussian_call(p, w)
      [] cls = "constant" -> constant_call(p, w)

\* ------------------------------------------------------------- state -----
VARIABLES
    plist,      \* heap: id of a parameter list |-> the list (Lineshape.p points into it)
    models,     \* "modelL", "modelT" |-> the SpectralModel object
    pc,         \* "idle", or the fit whose optimizer is running: "fit_model", "gLST"
    data,       \* the arguments dataX, datarp, datacp of the running fit
    ret,        \* the last call: its name, arguments and what it returned or raised
    kw          \* the variables of the script kw.py

vars == <<plist, models, pc, data, ret, kw>>

\* RMS_error holds sqrt(x): the field keeps the radicand x.
NewModel == [lineshapes |-> <<>>, numlineshapes |-> 0, RMS_error |-> R(0)]

NoData == [X |-> <<>>, rp |-> <<>>, cp |-> <<>>]

\* a lineshape object built by cls(): every argument at its default
DefaultLineshape(cls) ==
    [cls |-> cls, p |-> DefaultList(cls), bounds |-> ClassDef(cls).bounds,
     name |-> ClassDef(cls).name, type |-> ClassDef(cls).type, f |-> ClassDef(cls).f]

\* a lineshape object built by cls(params, bounds, name) from a list `id` of
\* the caller, with one bound pair per parameter
GivenLineshape(cls, id) ==
    [cls |-> cls, p |-> id,
     bounds |-> [j \in 1..ClassDef(cls).nparams |-> <<0, 10000>>],
     name |-> cls, type |-> ClassDef(cls).type, f |-> ClassDef(cls).f]

\* ------------------------------------------------ SpectralModel methods --
\* the parameter slots setparams walks through: <<list id, index>> per
\* lineshape in list order
RECURSIVE Slots(_, _)
Slots(ls, pl) ==
    IF ls = <<>> THEN <<>>
    ELSE [j \in 1..Len(pl[Head(ls).p]) |-> <<Head(ls).p, j>>] \o Slots(Tail(ls), pl)

\* l.p[j] = params[i]; i += 1, from slot k on.  params[i] raises IndexError
\* when params is used up; the assignments made before it stay.
RECURSIVE WriteSlots(_, _, _, _)
WriteSlots(pl, slots, params, k) ==
    IF k > Len(slots) THEN [exc |-> "", plist |-> pl]
    ELSE IF k > Len(params) THEN [exc |-> "IndexError", plist |-> pl]
    ELSE WriteSlots([pl EXCEPT ![slots[k][1]][slots[k][2]] = params[k]], slots, params, k + 1)

setparams(ls, pl, params) == WriteSlots(pl, Slots(ls, pl), params, 1)

RECURSIVE getparams(_, _)
getparams(ls, pl) ==
    IF ls = <<>> THEN <<>> ELSE pl[Head(ls).p] \o getparams(Tail(ls), pl)

RECURSIVE getbounds(_)
getbounds(ls) ==
    IF ls = <<>> THEN <<>> ELSE Head(ls).bounds \o getbounds(Tail(ls))

\* `self.lineshapes[i].p[0] == "BrendelDHO"`: a parameter value (a number)
\* compared with a str is False in Python
ParamEqualsStr(x, str) == FALSE

\* the summand of fsum for one lineshape
fsumTerm(l, pl) ==
    IF ParamEqualsStr(pl[l.p][1], "BrendelDHO") THEN l.f[1] ELSE R(pl[l.p][1])

RECURSIVE fsumLoop(_, _, _, _)
fsumLoop(ls, pl, n, i) ==
    IF i > n THEN R(0) ELSE RAdd(fsumTerm(ls[i], pl), fsumLoop(ls, pl, n, i + 1))

\* SpectralModel.fsum of a model object mo
fsum(mo, pl) == fsumLoop(mo.lineshapes, pl, mo.numlineshapes, 1)

\* Accumulate with the running sum dropped: rp = rpPart
AccumulateOverwrite(acc, part) == part

\* rp = rp + rpPart
Accumulate(acc, part) == VAdd(acc, part)

\* AfterCall with every class storing f = rp[0]
AfterCallStoresF(l, r) == [l EXCEPT !.f = <<r.rp[1]>>]

\* the lineshape object after its __call__ returned r
AfterCall(l, r) == IF "f" \in DOMAIN r THEN [l EXCEPT !.f = r.f] ELSE l

\* the loop of SpectralModel.__call__ from lineshape i on; acc is
\* [exc, rp, cp, lineshapes]
RECURSIVE CallLoop(_, _, _, _)
CallLoop(pl, w, i, acc) ==
    IF i > Len(acc.lineshapes) THEN acc
    ELSE LET add(l, r) ==
                 IF r.exc # ""
                 THEN [acc EXCEPT !.exc = r.exc, !.rp = <<>>, !.cp = <<>>]
                 ELSE CallLoop(pl, w, i + 1,
                        [exc |-> "",
                         rp |-> Accumulate(acc.rp, r.rp),
                         cp |-> Accumulate(acc.cp, r.cp),
                         lineshapes |-> [acc.lineshapes EXCEPT ![i] = AfterCall(l, r)]])
         IN  add(acc.lineshapes[i],
                 LineshapeCall(acc.lineshapes[i].cls, pl[acc.lineshapes[i].p], w))

\* SpectralModel.__call__: [exc, rp, cp, lineshapes]
ModelCall(ls, pl, w) ==
    CallLoop(pl, w, 1,
        [exc |-> "", rp |-> Zeros(Len(w)), cp |-> Zeros(Len(w)), lineshapes |-> ls])

\* SpectralModel.longeps
longeps(ls, pl, w) ==
    LET denom(c, i) == RAdd(RSq(c.rp[i]), RSq(c.cp[i]))
        invert(c) ==
            IF c.exc # "" THEN c
            ELSE [c EXCEPT !.rp = [i \in 1..Len(c.rp) |-> RDiv(c.rp[i], denom(c, i))],
                           !.cp = [i \in 1..Len(c.cp) |-> RDiv(c.cp[i], denom(c, i))]]
    IN  invert(ModelCall(ls, pl, w))

\* ------------------------------------------------------- fit_model -------
\* relative residuals (data - fit)/data of one part
RelDiff(dat, fit) == [i \in 1..Len(fit) |-> RDiv(RSub(dat[i], fit[i]), dat[i])]

\* a data array (integers) as an array of numbers
Arr(dat) == [i \in 1..Len(dat) |-> R(dat[i])]

\* diffsq of fit_model: [exc, val, plist, lineshapes], the heap and the
\* lineshapes as the call leaves them
diffsq(mo, pl, params, d) ==
    LET residual(s, c) ==
            IF c.exc # ""
            THEN [exc |-> c.exc, val |-> NaN, plist |-> s.plist, lineshapes |-> c.lineshapes]
            ELSE [exc |-> "",
                  val |-> RAdd(DotSelf(RelDiff(Arr(d.cp), c.cp)),
                               DotSelf(RelDiff(Arr(d.rp), c.rp))),
                  plist |-> s.plist, lineshapes |-> c.lineshapes]
        evaluate(s) ==
            IF s.exc # ""
            THEN [exc |-> s.exc, val |-> NaN, plist |-> s.plist, lineshapes |-> mo.lineshapes]
            ELSE residual(s, ModelCall(mo.lineshapes, s.plist, d.X))
    IN  evaluate(setparams(mo.lineshapes, pl, params))

\* costfun with self.fsum() read before diffsq(params) installs params
costfun_stale(mo, pl, params, d) ==
    LET fsumpenalty == RDiv(RSub(R(d.rp[1]), fsum(mo, pl)), R(d.rp[1]))
        total(e) ==
            IF e.exc # "" THEN e
            ELSE [e EXCEPT !.val = RAdd(e.val, RMul(R(100), RSq(fsumpenalty)))]
    IN  total(diffsq(mo, pl, params, d))

\* costfun of fit_model
costfun(mo, pl, params, d) ==
    LET fsumpenalty(e) ==
            RDiv(RSub(R(d.rp[1]), fsum([mo EXCEPT !.lineshapes = e.lineshapes], e.plist)),
                 R(d.rp[1]))
        total(e) ==
            IF e.exc # "" THEN e
            ELSE [e EXCEPT !.val = RAdd(e.val, RMul(R(100), RSq(fsumpenalty(e))))]
    IN  total(diffsq(mo, pl, params, d))

\* scipy.optimize.differential_evolution rejects bounds that are not a
\* non-empty sequence of finite (min, max) pairs with ValueError before it
\* evaluates the cost function
BoundsAccepted(bounds) ==
    /\ Len(bounds) > 0
    /\ \A i \in 1..Len(bounds) : Abs(bounds[i][1]) < Inf /\ Abs(bounds[i][2]) < Inf

\* Parameter vectors of length n: entries in PVals, all equal except possibly
\* the last one.
Candidates(n) == {[i \in 1..n |-> IF i = n THEN u ELSE b] : u \in PVals, b \in PVals}

\* the vectors the optimizer tries lie inside the bounds
Trials(bounds) ==
    {c \in Candidates(Len(bounds)) :
        \A i \in 1..Len(bounds) : bounds[i][1] <= c[i] /\ c[i] <= bounds[i][2]}

\* frequency arrays model(w) is called with
WArrays == {<<2>>, <<0, 1>>}

\* measured spectra (dataX, datarp, datacp) handed to fit_model
DataSets ==
    {[X |-> <<1, 2>>, rp |-> <<2, 1>>, cp |-> <<1, 1>>],
     [X |-> <<1>>, rp |-> <<3>>, cp |-> <<1>>]}

\* ------------------------------------------- fit_model_gLST_constraint --
MaxGL == 1              \* lineshapes added to each of modelL and modelT

\* the lineshape has the attribute `type` and its value is among names
TypeIn(l, names) == l.type # <<>> /\ l.type[1] \in names

\* ratios[i] of gLST_LHS for the lineshapes lL of modelL and lT of modelT:
\* [exc, val]
gLSTRatio(lL, lT, pl) ==
    LET pL == pl[lL.p]
        pT == pl[lT.p]
    IN  IF lL.type = <<>> THEN [exc |-> "AttributeError", val |-> NaN]
        ELSE IF ~TypeIn(lL, {"Debye", "DHO", "VanVleck", "BrendelDHO"})
        THEN [exc |-> "", val |-> R(0)]
        ELSE IF Len(pT) < 2 THEN [exc |-> "IndexError", val |-> NaN]
        ELSE IF TypeIn(lL, {"Debye"})
        THEN [exc |-> "", val |-> RDiv(R(pL[2]), R(pT[2]))]
        ELSE [exc |-> "", val |-> RDiv(R(pL[2] * pL[2] + pL[3] * pL[3]), R(pT[2] * pT[2]))]

\* the loop of gLST_LHS from lineshape i on, times the product so far
RECURSIVE gLSTLoop(_, _, _, _, _)
gLSTLoop(moL, moT, pl, i, acc) ==
    IF i > moL.numlineshapes THEN [exc |-> "", val |-> acc]
    ELSE LET times(r) ==
                 IF r.exc # "" THEN r ELSE gLSTLoop(moL, moT, pl, i + 1, RMul(acc, r.val))
         IN  times(gLSTRatio(moL.lineshapes[i], moT.lineshapes[i], pl))

gLST_LHS(moL, moT, pl) ==
    IF moL.numlineshapes # moT.numlineshapes
    THEN [exc |-> "AssertionError", val |-> NaN]
    ELSE gLSTLoop(moL, moT, pl, 1, R(1))

\* Ldatarp, Ldatacp
LData(d) ==
    [rp |-> [i \in 1..Len(d.rp) |->
                RDiv(R(d.rp[i]), R(d.rp[i] * d.rp[i] + d.cp[i] * d.cp[i]))],
     cp |-> [i \in 1..Len(d.cp) |->
                RDiv(R(d.cp[i]), R(d.rp[i] * d.rp[i] + d.cp[i] * d.cp[i]))]]

\* (datarp - rp)/datarp + (datacp - cp)/datacp
SumRelDiff(drp, dcp, rp, cp) ==
    [i \in 1..Len(rp) |-> RAdd(RelDiff(drp, rp)[i], RelDiff(dcp, cp)[i])]

\* diffsq of fit_model_gLST_constraint: [exc, val, plist, L, T], with L and
\* T the lineshapes of modelL and modelT as the call leaves them
gLST_diffsq(moL, moT, pl, paramsL, paramsT, d) ==
    LET left(e, h, L, T) == [exc |-> e, val |-> NaN, plist |-> h, L |-> L, T |-> T]
        residual(h, cL, cT) ==
            IF cT.exc # "" THEN left(cT.exc, h, cL.lineshapes, cT.lineshapes)
            ELSE [exc |-> "",
                  val |-> RAdd(DotSelf(SumRelDiff(Arr(d.rp), Arr(d.cp), cT.rp, cT.cp)),
                               DotSelf(SumRelDiff(LData(d).rp, LData(d).cp, cL.rp, cL.cp))),
                  plist |-> h, L |-> cL.lineshapes, T |-> cT.lineshapes]
        evaluateT(h, cL) ==
            IF cL.exc # "" THEN left(cL.exc, h, cL.lineshapes, moT.lineshapes)
            ELSE residual(h, cL, ModelCall(moT.lineshapes, h, d.X))
        evaluateL(sT) ==
            IF sT.exc # "" THEN left(sT.exc, sT.plist, moL.lineshapes, moT.lineshapes)
            ELSE evaluateT(sT.plist, ModelCall(moL.lineshapes, sT.plist, d.X))
        installT(sL) ==
            IF sL.exc # "" THEN left(sL.exc, sL.plist, moL.lineshapes, moT.lineshapes)
            ELSE evaluateL(setparams(moT.lineshapes, sL.plist, paramsT))
    IN  installT(setparams(moL.lineshapes, pl, paramsL))

\* params[0:len(params)//2] and params[len(params)//2:]
FirstHalf(params) == SubSeq(params, 1, Len(params) \div 2)

SecondHalf(params) == SubSeq(params, Len(params) \div 2 + 1, Len(params))

\* costfun of fit_model_gLST_constraint: val is what it returns, Error what
\* diffsq returned to it.  fsumpenalty and gLSTpenalty are computed before
\* diffsq installs params; the return statement does not use them.
gLST_costfun(moL, moT, pl, params, d) ==
    LET fsumpenalty == RSq(RDiv(RNeg(fsum(moT, pl)), R(d.rp[1])))
        gLST_RHS == RDiv(R(d.rp[1]), R(d.rp[Len(d.rp)]))
        gLSTpenalty(lhs) == RSq(RSub(lhs.val, gLST_RHS))
        return(e) ==
            [exc |-> e.exc, val |-> e.val, Error |-> e.val, plist |-> e.plist,
             L |-> e.L, T |-> e.T]
        cost(lhs) ==
            IF lhs.exc # ""
            THEN [exc |-> lhs.exc, val |-> NaN, Error |-> NaN, plist |-> pl,
                  L |-> moL.lineshapes, T |-> moT.lineshapes]
            ELSE return(gLST_diffsq(moL, moT, pl, FirstHalf(params), SecondHalf(params), d))
    IN  cost(gLST_LHS(moL, moT, pl))

\* measured transverse spectra (dataX, Tdatarp, Tdatacp) handed to
\* fit_model_gLST_constraint
DataSetsGLST ==
    {[X |-> <<0>>, rp |-> <<2>>, cp |-> <<1>>],
     [X |-> <<1, 2>>, rp |-> <<2, 1>>, cp |-> <<1, 1>>]}

\* ------------------------------------------------------------ actions ----
Init ==
    /\ plist = [i \in 1..Len(Classes) |-> ClassDef(Classes[i]).params]
    /\ models = [m \in {"modelL", "modelT"} |-> NewModel]
    /\ pc = "idle"
    /\ data = NoData
    /\ ret = [op |-> "init", exc |-> ""]
    /\ kw = [pc |-> "off"]

\* the id of the next list a caller creates for model m
FreshList(m) ==
    Len(Classes) + (IF m = "modelL" THEN 0 ELSE MaxLineshapes)
        + Len(models[m].lineshapes) + 1

\* model m holds fewer than cap lineshapes
Room(m, cap) == Len(models[m].lineshapes) < cap

\* model.add(cls()): the lineshape holds the class's default list
AddDefault(m, cls) ==
    /\ pc = "idle"
    /\ models' = [models EXCEPT ![m].lineshapes = @ \o <<DefaultLineshape(cls)>>,
                                ![m].numlineshapes = @ + 1]
    /\ ret' = [op |-> "add", exc |-> ""]
    /\ UNCHANGED <<plist, pc, data, kw>>

\* the classes callers construct with arguments of their own: one whose
\* __call__ only reads the object, the one whose __call__ stores f, and the
\* one whose __call__ reads more parameters than its default list holds
GivenClasses == {"Debye", "BrendelDHO", "PowerLawDebye"}

\* model.add(cls(params, bounds, name)) with a new list params = [1, ..., 1]
AddGiven(m, cls) ==
    /\ pc = "idle"
    /\ plist' = plist @@ (FreshList(m) :> [j \in 1..ClassDef(cls).nparams |-> 1])
    /\ models' = [models EXCEPT ![m].lineshapes = @ \o <<GivenLineshape(cls, FreshList(m))>>,
                                ![m].numlineshapes = @ + 1]
    /\ ret' = [op |-> "add", exc |-> ""]
    /\ UNCHANGED <<pc, data, kw>>

SetParams(m, params) ==
    /\ pc = "idle"
    /\ \E s \in {setparams(models[m].lineshapes, plist, params)} :
           /\ plist' = s.plist
           /\ ret' = [op |-> "setparams", exc |-> s.exc, model |-> m, params |-> params]
    /\ UNCHANGED <<models, pc, data, kw>>

GetParams(m) ==
    /\ pc = "idle"
    /\ ret' = [op |-> "getparams", exc |-> "", model |-> m,
               out |-> getparams(models[m].lineshapes, plist)]
    /\ UNCHANGED <<plist, models, pc, data, kw>>

Fsum(m) ==
    /\ pc = "idle"
    /\ ret' = [op |-> "fsum", exc |-> "", model |-> m, out |-> fsum(models[m], plist)]
    /\ UNCHANGED <<plist, models, pc, data, kw>>

Call(m, w) ==
    /\ pc = "idle"
    /\ \E c \in {ModelCall(models[m].lineshapes, plist, w)} :
           /\ models' = [models EXCEPT ![m].lineshapes = c.lineshapes]
           /\ ret' = [op |-> "call", exc |-> c.exc, model |-> m, w |-> w,
                      rp |-> c.rp, cp |-> c.cp]
    /\ UNCHANGED <<plist, pc, data, kw>>

Longeps(m, w) ==
    /\ pc = "idle"
    /\ \E c \in {longeps(models[m].lineshapes, plist, w)} :
           /\ models' = [models EXCEPT ![m].lineshapes = c.lineshapes]
           /\ ret' = [op |-> "longeps", exc |-> c.exc, model |-> m, w |-> w,
                      rp |-> c.rp, cp |-> c.cp]
    /\ UNCHANGED <<plist, pc, data, kw>>

\* fit_model up to the call of the optimizer
FitBegin(m, d) ==
    /\ pc = "idle"
    /\ IF BoundsAccepted(getbounds(models[m].lineshapes))
       THEN /\ pc' = "fit_model"
            /\ data' = d
            /\ ret' = [op |-> "fit_model", exc |-> "", model |-> m]
       ELSE /\ ret' = [op |-> "fit_model", exc |-> "ValueError", model |-> m]
            /\ UNCHANGED <<pc, data>>
    /\ UNCHANGED <<plist, models, kw>>

\* the optimizer evaluates costfun(params); an exception leaves fit_model
FitCost(m, params) ==
    /\ pc = "fit_model"
    /\ ret.model = m
    /\ \E r \in {costfun(models[m], plist, params, data)} :
           /\ plist' = r.plist
           /\ models' = [models EXCEPT ![m].lineshapes = r.lineshapes]
           /\ ret' = [op |-> "costfun", exc |-> r.exc, model |-> m,
                      params |-> params, out |-> r.val]
           /\ pc' = IF r.exc = "" THEN pc ELSE "idle"
           /\ data' = IF r.exc = "" THEN data ELSE NoData
    /\ UNCHANGED kw

\* the optimizer returns; fit_model stores the RMS error
FitEnd(m) ==
    /\ pc = "fit_model"
    /\ ret.op = "costfun"
    /\ ret.model = m
    /\ \E r \in {diffsq(models[m], plist, getparams(models[m].lineshapes, plist), data)} :
           /\ plist' = r.plist
           /\ models' = [models EXCEPT
                  ![m].lineshapes = r.lineshapes,
                  ![m].RMS_error = IF r.exc = "" THEN RDiv(r.val, R(2 * Len(data.X))) ELSE @]
           /\ ret' = [op |-> "fit_model", exc |-> r.exc, model |-> m]
    /\ pc' = "idle"
    /\ data' = NoData
    /\ UNCHANGED kw

\* fit_model_gLST_constraint up to the call of the optimizer
GLSTBegin(d) ==
    /\ pc = "idle"
    /\ LET boundsL == getbounds(models["modelL"].lineshapes)
           boundsT == getbounds(models["modelT"].lineshapes)
           params == getparams(models["modelL"].lineshapes, plist)
                         \o getparams(models["modelT"].lineshapes, plist)
           failed == IF Len(boundsL) # Len(boundsT) THEN "AssertionError"
                     ELSE IF Len(params) # Len(boundsL \o boundsT) THEN "AssertionError"
                     ELSE IF ~BoundsAccepted(boundsL \o boundsT) THEN "ValueError"
                     ELSE ""
       IN  /\ pc' = IF failed = "" THEN "gLST" ELSE pc
           /\ data' = IF failed = "" THEN d ELSE data
           /\ ret' = [op |-> "fit_model_gLST_constraint", exc |-> failed]
    /\ UNCHANGED <<plist, models, kw>>

\* (gLST_LHS(modelL, modelT) - eps0/eps_inf)**2 of the parameters the models
\* mL and mT hold in heap pl: the squared gLST deviation of a candidate once
\* diffsq has installed it
gLSTDeviation(mL, mT, pl, d) ==
    LET deviation(lhs) ==
            IF lhs.exc # "" THEN NaN
            ELSE RSq(RSub(lhs.val, RDiv(R(d.rp[1]), R(d.rp[Len(d.rp)]))))
    IN  deviation(gLST_LHS(mL, mT, pl))

\* the optimizer evaluates costfun(params); an exception leaves the fit.
\* ret records, next to the cost returned, the residual Error and the gLST
\* deviation of the candidate.
GLSTCost(params) ==
    /\ pc = "gLST"
    /\ \E r \in {gLST_costfun(models["modelL"], models["modelT"], plist, params, data)} :
           /\ plist' = r.plist
           /\ models' = [models EXCEPT !["modelL"].lineshapes = r.L,
                                       !["modelT"].lineshapes = r.T]
           /\ ret' = [op |-> "gLST_costfun", exc |-> r.exc, params |-> params,
                      out |-> r.val, Error |-> r.Error,
                      deviation |->
                          gLSTDeviation([models["modelL"] EXCEPT !.lineshapes = r.L],
                                        [models["modelT"] EXCEPT !.lineshapes = r.T],
                                        r.plist, data)]
           /\ pc' = IF r.exc = "" THEN pc ELSE "idle"
           /\ data' = IF r.exc = "" THEN data ELSE NoData
    /\ UNCHANGED kw

\* the optimizer returns; the RMS error is printed
GLSTEnd ==
    /\ pc = "gLST"
    /\ ret.op = "gLST_costfun"
    /\ \E r \in {gLST_diffsq(models["modelL"], models["modelT"], plist,
                               getparams(models["modelL"].lineshapes, plist),
                               getparams(models["modelT"].lineshapes, plist), data)} :
           /\ plist' = r.plist
           /\ models' = [models EXCEPT !["modelL"].lineshapes = r.L,
                                       !["modelT"].lineshapes = r.T]
           /\ ret' = [op |-> "fit_model_gLST_constraint", exc |-> r.exc]
    /\ pc' = "idle"
    /\ data' = NoData
    /\ UNCHANGED kw

\* a SpectralModel used through its methods
Next ==
    \/ \E cls \in ClassNames : Room("modelT", MaxLineshapes) /\ AddDefault("modelT", cls)
    \/ \E cls \in GivenClasses : Room("modelT", MaxLineshapes) /\ AddGiven("modelT", cls)
    \/ \E c \in Candidates(Len(getparams(models["modelT"].lineshapes, plist))) :
           SetParams("modelT", c)
    \/ GetParams("modelT")
    \/ Fsum("modelT")
    \/ \E w \in WArrays : Call("modelT", w)
    \/ \E w \in WArrays : Longeps("modelT", w)

Spec == Init /\ [][Next]_vars

\* a SpectralModel built, given parameters and evaluated
NextEval ==
    \/ \E cls \in ClassNames : Room("modelT", MaxLineshapes) /\ AddDefault("modelT", cls)
    \/ \E cls \in GivenClasses : Room("modelT", MaxLineshapes) /\ AddGiven("modelT", cls)
    \/ \E c \in Candidates(Len(getparams(models["modelT"].lineshapes, plist))) :
           SetParams("modelT", c)
    \/ \E w \in WArrays : Call("modelT", w)
    \/ \E w \in WArrays : Longeps("modelT", w)

SpecEval == Init /\ [][NextEval]_vars

\* a SpectralModel built and fitted with fit_model
NextFit ==
    \/ \E cls \in ClassNames : Room("modelT", MaxLineshapes) /\ AddDefault("modelT", cls)
    \/ \E cls \in GivenClasses : Room("modelT", MaxLineshapes) /\ AddGiven("modelT", cls)
    \/ \E d \in DataSets : FitBegin("modelT", d)
    \/ \E c \in Trials(getbounds(models["modelT"].lineshapes)) : FitCost("modelT", c)
    \/ FitEnd("modelT")

SpecFit == Init /\ [][NextFit]_vars

\* a longitudinal and a transverse model built and fitted together
NextGLST ==
    \/ \E m \in {"modelL", "modelT"}, cls \in ClassNames :
           Room(m, MaxGL) /\ AddDefault(m, cls)
    \/ \E m \in {"modelL", "modelT"}, cls \in GivenClasses :
           Room(m, MaxGL) /\ AddGiven(m, cls)
    \/ \E d \in DataSetsGLST : GLSTBegin(d)
    \/ \E c \in Trials(getbounds(models["modelL"].lineshapes)
                           \o getbounds(models["modelT"].lineshapes)) : GLSTCost(c)
    \/ GLSTEnd

SpecGLST == Init /\ [][NextGLST]_vars

\* ------------------------------------------------------------- kw.py -----
NumPoints == 4          \* num_points (1000 in the script)
NkCols == 2             \* Nk, the number of wavevector columns of the data

\* ntimesteps = size(data, 0) of the files the script is run on
NTimesteps == {8, 9, 12}

RECURSIVE NextPow2From(_, _)
NextPow2From(n, q) == IF q >= n THEN q ELSE NextPow2From(n, 2 * q)

\* int(2**ceil(log2(n)))
NextPow2(n) == NextPow2From(n, 1)

\* y = fft.ifft(tderiv, nextpow2) of column k is an input of the model: a
\* complex array of length nextpow2 with y[j] = j + (s + j)i
IfftOut(n, s) == [j \in 1..NextPow2(n) |-> [re |-> j - 1, im |-> s + j - 1]]

\* f = array(range(0, ntimesteps, 1))/(timestep*nextpow2), with timestep = 1
FreqRange(n) == [j \in 1..n |-> RDiv(R(j - 1), R(NextPow2(n)))]

RECURSIVE RSum(_)
RSum(a) == IF a = <<>> THEN R(0) ELSE RAdd(Head(a), RSum(Tail(a)))

\* mean(a[lo:hi]) of an array of numbers, lo and hi as in Python
MeanSlice(a, lo, hi) == RDiv(RSum(SubSeq(a, lo + 1, hi)), R(hi - lo))

\* mean(y[lo:hi]) of a complex array
CMeanSlice(y, lo, hi) ==
    [re |-> MeanSlice([j \in 1..Len(y) |-> R(y[j].re)], lo, hi),
     im |-> MeanSlice([j \in 1..Len(y) |-> R(y[j].im)], lo, hi)]

\* the script after line 34, for one pair of input files; float_index says
\* what the installed numpy does with the float num_avg_over in a slice
KWStart(n, ys, chik0, float_index) ==
    [pc |-> "k_loop", ntimesteps |-> n, y |-> ys, chik0 |-> chik0,
     float_index |-> float_index,
     k |-> 0, i |-> 1,
     temp |-> [j \in 1..NumPoints |-> [re |-> R(0), im |-> R(0)]],
     freqs |-> Zeros(NumPoints),
     chikw |-> [c \in 1..NkCols |-> Zeros(NumPoints)],
     num_avg_over |-> n \div NumPoints]

InitKW ==
    /\ plist = [i \in 1..Len(Classes) |-> ClassDef(Classes[i]).params]
    /\ models = [m \in {"modelL", "modelT"} |-> NewModel]
    /\ pc = "idle"
    /\ data = NoData
    /\ ret = [op |-> "init", exc |-> ""]
    /\ \E n \in NTimesteps, s \in [1..NkCols -> {1, 2}], c \in [1..NkCols -> {1, 2}],
          fi \in {"truncates", "TypeError"} :
          kw = KWStart(n, [k \in 1..NkCols |-> IfftOut(n, s[k])], c, fi)

\* `for k in range(Nk):` takes the next column: tderiv, y
KWNextColumn ==
    /\ kw.pc = "k_loop"
    /\ kw.k < NkCols
    /\ kw' = [kw EXCEPT !.pc = "i_loop", !.i = 1]
    /\ UNCHANGED <<plist, models, pc, data, ret>>

\* one pass of `for i in xrange(1,num_points-1):` in the column loop
KWAverage ==
    /\ kw.pc = "i_loop"
    /\ kw.i < NumPoints - 1
    /\ kw' = IF kw.float_index = "TypeError"
             THEN [kw EXCEPT !.pc = "TypeError"]
             ELSE [kw EXCEPT !.temp[kw.i] =
                       CMeanSlice(kw.y[kw.k + 1], (kw.i - 1) * kw.num_avg_over,
                                  kw.i * kw.num_avg_over),
                             !.i = kw.i + 1]
    /\ UNCHANGED <<plist, models, pc, data, ret>>

\* chikw[:,k] = -chik0[k]*imag(temp); print k
KWStoreColumn ==
    /\ kw.pc = "i_loop"
    /\ kw.i >= NumPoints - 1
    /\ kw' = [kw EXCEPT !.chikw[kw.k + 1] =
                  [j \in 1..NumPoints |-> RMul(R(-kw.chik0[kw.k + 1]), kw.temp[j].im)],
                        !.k = kw.k + 1, !.pc = "k_loop"]
    /\ UNCHANGED <<plist, models, pc, data, ret>>

\* the column loop is over
KWColumnsDone ==
    /\ kw.pc = "k_loop"
    /\ kw.k >= NkCols
    /\ kw' = [kw EXCEPT !.pc = "freq_loop", !.i = 1]
    /\ UNCHANGED <<plist, models, pc, data, ret>>

\* one pass of the second `for i in xrange(1,num_points-1):`
KWAverageFreq ==
    /\ kw.pc = "freq_loop"
    /\ kw.i < NumPoints - 1
    /\ kw' = [kw EXCEPT !.freqs[kw.i] =
                  MeanSlice(FreqRange(kw.ntimesteps), (kw.i - 1) * kw.num_avg_over,
                            kw.i * kw.num_avg_over),
                        !.i = kw.i + 1]
    /\ UNCHANGED <<plist, models, pc, data, ret>>

\* the rest of the script plots freqs and chikw
KWPlot ==
    /\ kw.pc = "freq_loop"
    /\ kw.i >= NumPoints - 1
    /\ kw' = [kw EXCEPT !.pc = "done"]
    /\ UNCHANGED <<plist, models, pc, data, ret>>

NextKW ==
    \/ KWNextColumn
    \/ KWAverage
    \/ KWStoreColumn
    \/ KWColumnsDone
    \/ KWAverageFreq
    \/ KWPlot

SpecKW == InitKW /\ [][NextKW]_vars

\* ============================================================= claims ====
TheModel == models["modelT"]

\* sum over the lineshapes ls of entry i of the real ("rp") or imaginary
\* ("cp") part each returns at w
RECURSIVE PartsSum(_, _, _, _, _)
PartsSum(ls, pl, w, part, i) ==
    IF ls = <<>> THEN R(0)
    ELSE LET r == LineshapeCall(Head(ls).cls, pl[Head(ls).p], w)
         IN  RAdd(IF part = "rp" THEN r.rp[i] ELSE r.cp[i],
                  PartsSum(Tail(ls), pl, w, part, i))

\* C1: when model(w) returns (rp, cp), both have the length of w, and
\* entry i of rp (of cp) is the sum over the model's lineshapes of entry i of
\* the real (imaginary) part the lineshape returns at w; a model without
\* lineshapes returns zeros.
C1_CallReturnsSum ==
    (ret.op = "call" /\ ret.exc = "") =>
        /\ Len(ret.rp) = Len(ret.w)
        /\ Len(ret.cp) = Len(ret.w)
        /\ \A i \in 1..Len(ret.w) :
              /\ ret.rp[i] = PartsSum(TheModel.lineshapes, plist, ret.w, "rp", i)
              /\ ret.cp[i] = PartsSum(TheModel.lineshapes, plist, ret.w, "cp", i)
        /\ TheModel.lineshapes = <<>> =>
              \A i \in 1..Len(ret.w) : ret.rp[i] = R(0) /\ ret.cp[i] = R(0)

\* model(w) returned for a model of two lineshapes of different classes that
\* both contribute to the last entry
C1_Witness ==
    /\ ret.op = "call"
    /\ ret.exc = ""
    /\ Len(TheModel.lineshapes) = 2
    /\ TheModel.lineshapes[1].cls # TheModel.lineshapes[2].cls
    /\ Len(ret.w) = 2
    /\ \A k \in 1..2 :
          LET l == TheModel.lineshapes[k]
          IN  /\ IsFinite(LineshapeCall(l.cls, plist[l.p], ret.w).rp[2])
              /\ LineshapeCall(l.cls, plist[l.p], ret.w).rp[2] # R(0)
              /\ LineshapeCall(l.cls, plist[l.p], ret.w).cp[2] # R(0)

\* sum over i >= k of ((dat[i] - fit[i])/dat[i])**2
RECURSIVE SquaredRelResiduals(_, _, _)
SquaredRelResiduals(dat, fit, k) ==
    IF k > Len(fit) THEN R(0)
    ELSE RAdd(RSq(RDiv(RSub(R(dat[k]), fit[k]), R(dat[k]))),
              SquaredRelResiduals(dat, fit, k + 1))

\* the heap with the candidate params installed in the model
Installed(params) == setparams(TheModel.lineshapes, plist, params).plist

\* the f-sum penalty of the candidate params
FsumPenaltyOf(params) ==
    RSq(RDiv(RSub(R(data.rp[1]), fsum(TheModel, Installed(params))), R(data.rp[1])))

\* C3: the cost fit_model's costfun returns for a candidate is the sum of
\* the squared relative residuals of the real and of the imaginary part of the
\* model with the candidate installed, plus 100 times the squared relative
\* f-sum deviation (datarp[0] - fsum)/datarp[0], fsum being that of the model
\* with this same candidate installed.
C3_CostOfCandidate ==
    (ret.op = "costfun" /\ ret.exc = "") =>
        LET c == ModelCall(TheModel.lineshapes, Installed(ret.params), data.X)
        IN  /\ plist = Installed(ret.params)
            /\ ret.out = RAdd(RAdd(SquaredRelResiduals(data.rp, c.rp, 1),
                                   SquaredRelResiduals(data.cp, c.cp, 1)),
                              RMul(R(100), FsumPenaltyOf(ret.params)))

\* a cost was returned for a model of two lineshapes, with residual and
\* f-sum penalty both non-zero
C3_Witness ==
    /\ ret.op = "costfun"
    /\ ret.exc = ""
    /\ Len(TheModel.lineshapes) = 2
    /\ FsumPenaltyOf(ret.params) # R(0)
    /\ ret.out # RMul(R(100), FsumPenaltyOf(ret.params))
    /\ IsFinite(ret.out)

\* the step is a return (or raise) of model(w) or model.longeps(w)
Evaluated == ret'.op \in {"call", "longeps"}

\* C4 as stated: evaluating a model at a frequency array leaves every
\* attribute of every lineshape and the model's lineshapes, numlineshapes and
\* RMS_error unchanged.
C4_Stateless == [][Evaluated => (plist' = plist /\ models' = models)]_vars

\* lineshape l2 is l with at most f changed, and f changed only if the
\* object is a BrendelDHO
SameButBrendelF(l, l2) ==
    /\ [l2 EXCEPT !.f = l.f] = l
    /\ l.cls # "BrendelDHO" => l2.f = l.f

\* C4, amended: evaluating a model at a frequency array leaves every
\* parameter list, the model's numlineshapes and RMS_error, the length and the
\* order of its lineshapes list and every attribute of every lineshape
\* unchanged, except the attribute f of BrendelDHO objects.
C4_StatelessButBrendelF ==
    [][Evaluated =>
          /\ plist' = plist
          /\ \A m \in DOMAIN models :
                /\ models'[m].numlineshapes = models[m].numlineshapes
                /\ models'[m].RMS_error = models[m].RMS_error
                /\ Len(models'[m].lineshapes) = Len(models[m].lineshapes)
                /\ \A i \in 1..Len(models[m].lineshapes) :
                      SameButBrendelF(models[m].lineshapes[i], models'[m].lineshapes[i])]_vars

\* model(w) returned and left a BrendelDHO with an f other than the 0 of
\* its constructor, next to a lineshape of another class
C4_Witness ==
    /\ ret.op \in {"call", "longeps"}
    /\ ret.exc = ""
    /\ \E i \in 1..Len(TheModel.lineshapes) :
          /\ TheModel.lineshapes[i].cls = "BrendelDHO"
          /\ TheModel.lineshapes[i].f # <<R(0)>>
    /\ \E i \in 1..Len(TheModel.lineshapes) : TheModel.lineshapes[i].cls # "BrendelDHO"

\* C5: after setparams(params) returned for a params as long as
\* getparams(), getparams() is params, and no two entries of params went to
\* the same slot of the same list.
C5_RoundTrip ==
    (ret.op = "setparams" /\ ret.exc = "") =>
        /\ getparams(TheModel.lineshapes, plist) = ret.params
        /\ LET slots == Slots(TheModel.lineshapes, plist)
           IN  \A j, k \in 1..Len(slots) : slots[j] = slots[k] => j = k

\* the oscillator strength of a lineshape: the stored f of a BrendelDHO, the
\* parameter p[0] of any other
OscillatorStrength(l, pl) == IF l.cls = "BrendelDHO" THEN l.f[1] ELSE R(pl[l.p][1])

RECURSIVE StrengthSum(_, _)
StrengthSum(ls, pl) ==
    IF ls = <<>> THEN R(0)
    ELSE RAdd(OscillatorStrength(Head(ls), pl), StrengthSum(Tail(ls), pl))

\* C6: fsum() returns the sum of the oscillator strengths of the model's
\* lineshapes, the stored f for a BrendelDHO and p[0] for every other.
C6_FsumOfStrengths ==
    ret.op = "fsum" => ret.out = StrengthSum(TheModel.lineshapes, plist)

\* every lineshape of the model was constructed with default arguments
AllDefault ==
    \A i \in 1..Len(TheModel.lineshapes) :
        TheModel.lineshapes[i] = [DefaultLineshape(TheModel.lineshapes[i].cls)
                                     EXCEPT !.f = TheModel.lineshapes[i].f]

\* C7: evaluating a model of lineshapes constructed with default arguments
\* at a frequency array w does not raise and returns two arrays as long as w.
C7_DefaultsEvaluate ==
    (ret.op = "call" /\ AllDefault) =>
        /\ ret.exc = ""
        /\ Len(ret.rp) = Len(ret.w)
        /\ Len(ret.cp) = Len(ret.w)

\* C2: of two candidates the optimizer evaluates one after the other, with
\* the same residual Error and different gLST deviations, the costs differ.
C2_PenaltySeparates ==
    [][(/\ ret.op = "gLST_costfun" /\ ret.exc = ""
        /\ ret'.op = "gLST_costfun" /\ ret'.exc = ""
        /\ IsFinite(ret.out) /\ IsFinite(ret'.out)
        /\ ret.Error = ret'.Error
        /\ ret.deviation # ret'.deviation)
       => ret.out # ret'.out]_vars

\* imag of the mean of block j (from 0) of column k (from 1) of the
\* transformed data, times -chik0[k]
BlockValue(k, j) ==
    LET block == [n \in 1..kw.num_avg_over |-> R(kw.y[k][j * kw.num_avg_over + n].im)]
    IN  RMul(R(-kw.chik0[k]), RDiv(RSum(block), R(kw.num_avg_over)))

\* the mean of block j (from 0) of the frequency range
BlockFreq(j) ==
    LET block == [n \in 1..kw.num_avg_over |->
                     FreqRange(kw.ntimesteps)[j * kw.num_avg_over + n]]
    IN  RDiv(RSum(block), R(kw.num_avg_over))

\* C8: when the script has run, every entry j = 0 .. num_points-1 of every
\* column of chikw and of freqs holds the value derived from the mean of its
\* block of num_avg_over samples.
C8_EveryBlockAveraged ==
    kw.pc = "done" =>
        \A j \in 0..(NumPoints - 1) :
            /\ kw.freqs[j + 1] = BlockFreq(j)
            /\ \A k \in 1..NkCols : kw.chikw[k][j + 1] = BlockValue(k, j)

====
